---- MODULE Spec2Model ----
(***************************************************************************)
(* A model of the Federal Audit Clearinghouse API client, FACClient, of    *)
(* src/src/data_collection/fac_api.py: the request executor with its       *)
(* rate-limit loop (_make_request), the "general" query builder            *)
(* (get_general), the exhaustive year x jurisdiction sweep                 *)
(* (get_all_general) and the batch collector of the federal awards         *)
(* (get_all_federal_awards).                                               *)
(*                                                                         *)
(* Python strings are sequences of one-character strings, so that          *)
(* str.strip, str.lower, str.upper, float() and the f-string formatting    *)
(* are computed rather than assumed.  The remote service and the clock     *)
(* are the environment: every response the server can give is drawn with   *)
(* \E in the step that issues the request.                                 *)
(***************************************************************************)
EXTENDS Integers, Sequences, FiniteSets, TLC

(***************************************************************************)
(* Bounds of the model.                                                    *)
(***************************************************************************)
\* Network requests one call of _make_request may issue in the model; the
\* code's "while True" has no cap.
MaxRequests == 3
\* Number of audit years (min_audit_year .. max_audit_year) a client may span.
MaxYearSpan == 1
\* Longest prefix of the jurisdiction list a client may be configured with.
MaxStates == 2
\* Largest batch_size a caller of get_all_federal_awards passes.
MaxBatchSize == 3

(***************************************************************************)
(* Python strings.                                                         *)
(***************************************************************************)
Whitespace == {" ", "\t"}

LowerOf ==
    [A |-> "a", B |-> "b", C |-> "c", D |-> "d", E |-> "e", F |-> "f", G |-> "g",
     H |-> "h", I |-> "i", J |-> "j", K |-> "k", L |-> "l", M |-> "m", N |-> "n",
     O |-> "o", P |-> "p", Q |-> "q", R |-> "r", S |-> "s", T |-> "t", U |-> "u",
     V |-> "v", W |-> "w", X |-> "x", Y |-> "y", Z |-> "z"]

UpperOf ==
    [a |-> "A", b |-> "B", c |-> "C", d |-> "D", e |-> "E", f |-> "F", g |-> "G",
     h |-> "H", i |-> "I", j |-> "J", k |-> "K", l |-> "L", m |-> "M", n |-> "N",
     o |-> "O", p |-> "P", q |-> "Q", r |-> "R", s |-> "S", t |-> "T", u |-> "U",
     v |-> "V", w |-> "W", x |-> "X", y |-> "Y", z |-> "Z"]

\* str.lower()
Lower(s) == [i \in 1..Len(s) |-> IF s[i] \in DOMAIN LowerOf THEN LowerOf[s[i]] ELSE s[i]]

\* str.upper()
Upper(s) == [i \in 1..Len(s) |-> IF s[i] \in DOMAIN UpperOf THEN UpperOf[s[i]] ELSE s[i]]

RECURSIVE LStrip(_)
LStrip(s) == IF s # <<>> /\ Head(s) \in Whitespace THEN LStrip(Tail(s)) ELSE s

RECURSIVE RStrip(_)
RStrip(s) ==
    IF s # <<>> /\ s[Len(s)] \in Whitespace THEN RStrip(SubSeq(s, 1, Len(s) - 1)) ELSE s

\* str.strip()
Strip(s) == RStrip(LStrip(s))

DigitChars == <<"0", "1", "2", "3", "4", "5", "6", "7", "8", "9">>

DigitValue(c) == CHOOSE d \in 0..9 : DigitChars[d + 1] = c

IsDigits(s) == s # <<>> /\ \A i \in 1..Len(s) : \E d \in 1..10 : DigitChars[d] = s[i]

RECURSIVE DecimalValue(_)
DecimalValue(s) ==
    IF s = <<>> THEN 0 ELSE 10 * DecimalValue(SubSeq(s, 1, Len(s) - 1)) + DigitValue(s[Len(s)])

\* str(n) of a non-negative int, as an f-string formats it.
RECURSIVE IntToStr(_)
IntToStr(n) == IF n < 10 THEN <<DigitChars[n + 1]>> ELSE IntToStr(n \div 10) \o <<DigitChars[(n % 10) + 1]>>

\* ','.join(columns)
RECURSIVE Join(_)
Join(cols) ==
    IF cols = <<>> THEN <<>>
    ELSE IF Len(cols) = 1 THEN cols[1]
    ELSE cols[1] \o <<",">> \o Join(Tail(cols))

(***************************************************************************)
(* float(retry_after) and time.sleep(wait_time).  The header values the    *)
(* model draws are signed decimal integers, "inf", "nan" and text that is  *)
(* no number; a parsed value is finite (val seconds), inf or nan.          *)
(***************************************************************************)
ParseFloat(s) ==
    LET t == Strip(s)
        signed == t # <<>> /\ Head(t) \in {"-", "+"}
        body == IF signed THEN Tail(t) ELSE t
        neg == signed /\ Head(t) = "-"
    IN  IF IsDigits(body)
        THEN [ok |-> TRUE, cls |-> "finite",
              val |-> IF neg THEN 0 - DecimalValue(body) ELSE DecimalValue(body)]
        ELSE IF Lower(body) \in {<<"i", "n", "f">>, <<"i", "n", "f", "i", "n", "i", "t", "y">>}
        THEN [ok |-> TRUE, cls |-> "inf", val |-> IF neg THEN -1 ELSE 1]
        ELSE IF Lower(body) = <<"n", "a", "n">>
        THEN [ok |-> TRUE, cls |-> "nan", val |-> 0]
        ELSE [ok |-> FALSE, cls |-> "ValueError", val |-> 0]

\* time.sleep(w): "ok", or the exception it raises.
SleepResult(w) ==
    IF w.cls = "nan" THEN "ValueError"
    ELSE IF w.val < 0 THEN "ValueError"
    ELSE IF w.cls = "inf" THEN "OverflowError"
    ELSE "ok"

(***************************************************************************)
(* Client configuration (FACClient.__init__).                              *)
(***************************************************************************)
base_url ==
    <<"h","t","t","p","s",":","/","/","a","p","i",".","f","a","c",".","g","o","v">>

EndpointNames ==
    { <<"g","e","n","e","r","a","l">>
    , <<"f","e","d","e","r","a","l","_","a","w","a","r","d","s">>
    , <<"a","d","d","i","t","i","o","n","a","l","_","e","i","n","s">>
    , <<"a","d","d","i","t","i","o","n","a","l","_","u","e","i","s">>
    , <<"c","o","r","r","e","c","t","i","v","e","_","a","c","t","i","o","n","_","p","l","a","n","s">>
    , <<"f","i","n","d","i","n","g","s">>
    , <<"f","i","n","d","i","n","g","s","_","t","e","x","t">>
    , <<"n","o","t","e","s","_","t","o","_","s","e","f","a">>
    , <<"p","a","s","s","t","h","r","o","u","g","h">>
    , <<"s","e","c","o","n","d","a","r","y","_","a","u","d","i","t","o","r","s">> }

\* self.endpoints: every resource name maps to "/" + name.
endpoints == [n \in EndpointNames |-> <<"/">> \o n]

min_audit_year == 2016

FACStates ==
    << <<"A","K">>, <<"A","L">>, <<"A","R">>, <<"A","S">>, <<"A","Z">>, <<"C","A">>, <<"C","O">>, <<"C","T">>
     , <<"D","C">>, <<"D","E">>, <<"F","L">>, <<"F","M">>, <<"G","A">>, <<"G","U">>, <<"H","I">>, <<"I","A">>
     , <<"I","D">>, <<"I","L">>, <<"I","N">>, <<"K","S">>, <<"K","Y">>, <<"L","A">>, <<"M","A">>, <<"M","D">>
     , <<"M","E">>, <<"M","H">>, <<"M","I">>, <<"M","N">>, <<"M","O">>, <<"M","P">>, <<"M","S">>, <<"M","T">>
     , <<"N","C">>, <<"N","D">>, <<"N","E">>, <<"N","H">>, <<"N","J">>, <<"N","M">>, <<"N","V">>, <<"N","Y">>
     , <<"O","H">>, <<"O","K">>, <<"O","R">>, <<"P","A">>, <<"P","R">>, <<"P","W">>, <<"R","I">>, <<"S","C">>
     , <<"S","D">>, <<"T","N">>, <<"T","X">>, <<"U","T">>, <<"V","A">>, <<"V","I">>, <<"V","T">>, <<"W","A">>
     , <<"W","I">>, <<"W","V">>, <<"W","Y">> >>

(***************************************************************************)
(* Outcomes of a call: nothing yet, a returned list, a returned None (the  *)
(* function ran off its end), or a raised exception.                       *)
(***************************************************************************)
NoOutcome == [kind |-> "none", exc |-> "", msg |-> "", cause |-> "", value |-> <<>>]

ReturnList(v) == [kind |-> "list", exc |-> "", msg |-> "", cause |-> "", value |-> v]

ReturnNone == [kind |-> "None", exc |-> "", msg |-> "", cause |-> "", value |-> <<>>]

\* raise exc(msg) from cause
Raise(exc, msg, cause) == [kind |-> "raise", exc |-> exc, msg |-> msg, cause |-> cause, value |-> <<>>]

(***************************************************************************)
(* _validate_string.  An argument is a str (its characters), None, or a    *)
(* value of another type.                                                  *)
(***************************************************************************)
PyVal(type, chars, val, items) == [type |-> type, chars |-> chars, val |-> val, items |-> items]

PyStr(s) == PyVal("str", s, 0, <<>>)

PyNone == PyVal("NoneType", <<>>, 0, <<>>)

PyInt(n) == PyVal("int", <<>>, n, <<>>)

PyList(l) == PyVal("list", <<>>, 0, l)

\* As validate_string, without the strip().
validate_string_NoStrip(input_string) ==
    IF input_string.type = "NoneType" THEN [raised |-> "ValueError", value |-> <<>>]
    ELSE IF input_string.type # "str" THEN [raised |-> "TypeError", value |-> <<>>]
    ELSE [raised |-> "", value |-> Lower(input_string.chars)]

validate_string(input_string) ==
    IF input_string.type = "NoneType" THEN [raised |-> "ValueError", value |-> <<>>]
    ELSE IF input_string.type # "str" THEN [raised |-> "TypeError", value |-> <<>>]
    ELSE [raised |-> "", value |-> Lower(Strip(input_string.chars))]

(***************************************************************************)
(* The remote service: what one session.get can come back with.            *)
(***************************************************************************)
Hdr(s) == [present |-> TRUE, chars |-> s]

NoHeader == [present |-> FALSE, chars |-> <<>>]

\* Retry-After headers a 429 may carry: none, "", "abc", "-1", "0", "2", "inf", "nan".
RetryAfterHeaders ==
    { NoHeader, Hdr(<<>>), Hdr(<<"a", "b", "c">>), Hdr(<<"-", "1">>), Hdr(<<"0">>),
      Hdr(<<"2">>), Hdr(<<"i", "n", "f">>), Hdr(<<"n", "a", "n">>) }

Rec(id) == [report_id |-> id]

R1 == <<"R", "1">>

R2 == <<"R", "2">>

R3 == <<"R", "3">>

\* A record that has no 'report_id' key.
NoIdRec == [auditee_name |-> <<"X">>]

\* JSON arrays a successful response may hold: none, or five records with the
\* report ids R1, R1, none, R2, R3.
RecordLists == { <<>>, <<Rec(R1), Rec(R1), NoIdRec, Rec(R2), Rec(R3)>> }

\* kind: "response" (the server answered) or the exception session.get raised.
\* body: "list", "object" (valid JSON, not an array) or "invalid" (not JSON);
\* jsonexc: the class response.json() raises on an invalid body.
Resp(kind, status, body, jsonexc, records, retry_after) ==
    [kind |-> kind, status |-> status, body |-> body, jsonexc |-> jsonexc,
     records |-> records, retry_after |-> retry_after]

Unbound == Resp("unbound", 0, "", "", <<>>, NoHeader)

Responses ==
    { Resp("response", 200, "list", "", l, NoHeader) : l \in RecordLists }
    \cup { Resp("response", 200, "object", "", <<>>, NoHeader) }
    \cup { Resp("response", 200, "invalid", x, <<>>, NoHeader) :
             x \in {"RequestsJSONDecodeError", "JSONDecodeError"} }
    \cup { Resp("response", st, "object", "", <<>>, NoHeader) : st \in {401, 404, 500} }
    \cup { Resp("response", 429, "object", "", <<>>, h) : h \in RetryAfterHeaders }
    \cup { Resp(x, 0, "", "", <<>>, NoHeader) :
             x \in {"ConnectionError", "ConnectTimeout", "ReadTimeout", "TooManyRedirects"} }

\* The classes an exception is an instance of (requests.exceptions and json).
Bases(exc) ==
    CASE exc = "HTTPError" -> {"HTTPError", "RequestException"}
      [] exc = "ConnectionError" -> {"ConnectionError", "RequestException"}
      [] exc = "ConnectTimeout" -> {"ConnectTimeout", "ConnectionError", "Timeout", "RequestException"}
      [] exc = "ReadTimeout" -> {"ReadTimeout", "Timeout", "RequestException"}
      [] exc = "TooManyRedirects" -> {"TooManyRedirects", "RequestException"}
      [] exc = "RequestsJSONDecodeError" -> {"RequestsJSONDecodeError", "RequestException", "ValueError"}
      [] exc = "JSONDecodeError" -> {"JSONDecodeError", "ValueError"}
      [] OTHER -> {exc}

(***************************************************************************)
(* Events of a call of _make_request, in order: the requests it sent, the  *)
(* sleeps it took and the warning of line 115.  The progress messages of   *)
(* the rate-limit branch (lines 128 and 132) change nothing and are left   *)
(* out.                                                                    *)
(***************************************************************************)
GetEvent(url, params) == [ev |-> "get", url |-> url, params |-> params, secs |-> 0]

SleepEvent(w) == [ev |-> "sleep", url |-> <<>>, params |-> <<>>, secs |-> w]

PrintEvent(what) == [ev |-> what, url |-> <<>>, params |-> <<>>, secs |-> 0]

\* The step a handler ends with: flow is "return", "raise", "continue" (the
\* loop's next iteration) or "fall" (control leaves the try statement).
Flow(flow, out, events) == [flow |-> flow, out |-> out, events |-> events]

(***************************************************************************)
(* _make_request, one iteration of its loop.                               *)
(***************************************************************************)
\* As TryBody, with a body that is no list treated as an error.
TryBody_RaisesOnNonList(resp) ==
    IF resp.kind # "response" THEN Flow("except", Raise(resp.kind, "", ""), <<>>)
    ELSE IF resp.status >= 400 THEN Flow("except", Raise("HTTPError", "", ""), <<>>)
    ELSE IF resp.body = "invalid" THEN Flow("except", Raise(resp.jsonexc, "", ""), <<>>)
    ELSE IF resp.body = "list" THEN Flow("return", ReturnList(resp.records), <<>>)
    ELSE Flow("except", Raise("JSONDecodeError", "", ""), <<>>)

\* Lines 108-116: the try body.  An exception leaves as flow "except".
TryBody(resp) ==
    IF resp.kind # "response" THEN Flow("except", Raise(resp.kind, "", ""), <<>>)
    ELSE IF resp.status >= 400 THEN Flow("except", Raise("HTTPError", "", ""), <<>>)
    ELSE IF resp.body = "invalid" THEN Flow("except", Raise(resp.jsonexc, "", ""), <<>>)
    ELSE IF resp.body = "list" THEN Flow("return", ReturnList(resp.records), <<>>)
    ELSE Flow("return", ReturnList(<<>>), <<PrintEvent("print: Warning: Expected list")>>)

\* As RetryAfterBranch, with the time.sleep left out.
RetryAfterBranch_NoSleep(retry_after) ==
    IF retry_after.present /\ retry_after.chars # <<>>
    THEN IF ParseFloat(retry_after.chars).ok
         THEN Flow("continue", NoOutcome, <<>>)
         ELSE Flow("fall", NoOutcome, <<>>)
    ELSE Flow("fall", NoOutcome, <<>>)

\* Lines 124-132: the Retry-After branch of a 429 under handle_429.
RetryAfterBranch(retry_after) ==
    IF retry_after.present /\ retry_after.chars # <<>>
    THEN LET wait_time == ParseFloat(retry_after.chars)
         IN  IF ~wait_time.ok
             THEN Flow("fall", NoOutcome, <<>>)
             ELSE CASE SleepResult(wait_time) = "ok" ->
                         Flow("continue", NoOutcome, <<SleepEvent(wait_time.val)>>)
                    [] SleepResult(wait_time) = "ValueError" ->
                         Flow("fall", NoOutcome, <<>>)
                    [] OTHER ->
                         Flow("raise", Raise(SleepResult(wait_time), "", ""), <<>>)
    ELSE Flow("fall", NoOutcome, <<>>)

\* As HTTPErrorHandler, with the handle_429 test left out.
HTTPErrorHandler_AlwaysRetry(resp, handle_429) ==
    IF resp.status = 401
    THEN Flow("raise", Raise("APIError", "Authentication failed", "HTTPError"), <<>>)
    ELSE IF resp.status = 429
    THEN RetryAfterBranch(resp.retry_after)
    ELSE IF resp.status = 404
    THEN Flow("raise", Raise("APIError", "Endpoint not found", "HTTPError"), <<>>)
    ELSE Flow("raise", Raise("APIError", "HTTP error", "HTTPError"), <<>>)

\* Lines 117-137: except requests.exceptions.HTTPError.
HTTPErrorHandler(resp, handle_429) ==
    IF resp.status = 401
    THEN Flow("raise", Raise("APIError", "Authentication failed", "HTTPError"), <<>>)
    ELSE IF resp.status = 429
    THEN IF ~handle_429
         THEN Flow("raise", Raise("APIError", "Rate limit exceeded", "HTTPError"), <<>>)
         ELSE RetryAfterBranch(resp.retry_after)
    ELSE IF resp.status = 404
    THEN Flow("raise", Raise("APIError", "Endpoint not found", "HTTPError"), <<>>)
    ELSE Flow("raise", Raise("APIError", "HTTP error", "HTTPError"), <<>>)

\* As ExceptClauses, with a body that is no JSON degraded to an empty list.
ExceptClauses_JSONDegrades(exc, resp, handle_429) ==
    IF "HTTPError" \in Bases(exc) THEN HTTPErrorHandler(resp, handle_429)
    ELSE IF "ValueError" \in Bases(exc)
    THEN Flow("return", ReturnList(<<>>), <<PrintEvent("print: Warning: Expected list")>>)
    ELSE IF "ConnectionError" \in Bases(exc)
    THEN Flow("raise", Raise("APIError", "Failed to connect", exc), <<>>)
    ELSE IF "Timeout" \in Bases(exc)
    THEN Flow("raise", Raise("APIError", "Request timeout", exc), <<>>)
    ELSE Flow("raise", Raise("APIError", "Request failed", exc), <<>>)

\* Lines 117-145: the except clauses, tried in order.
ExceptClauses(exc, resp, handle_429) ==
    IF "HTTPError" \in Bases(exc) THEN HTTPErrorHandler(resp, handle_429)
    ELSE IF "ConnectionError" \in Bases(exc)
    THEN Flow("raise", Raise("APIError", "Failed to connect", exc), <<>>)
    ELSE IF "Timeout" \in Bases(exc)
    THEN Flow("raise", Raise("APIError", "Request timeout", exc), <<>>)
    ELSE IF "RequestException" \in Bases(exc)
    THEN Flow("raise", Raise("APIError", "Request failed", exc), <<>>)
    ELSE IF "ValueError" \in Bases(exc)
    THEN Flow("raise", Raise("APIError", "Invalid JSON response", exc), <<>>)
    ELSE Flow("raise", Raise(exc, "", ""), <<>>)

\* As AfterTry, with an unconditional break.
AfterTry_AlwaysBreak(handle_429) == Flow("return", ReturnNone, <<>>)

\* Lines 147-148: reached when control leaves the try statement.
AfterTry(handle_429) ==
    IF ~handle_429 THEN Flow("return", ReturnNone, <<>>) ELSE Flow("continue", NoOutcome, <<>>)

\* Lines 106-148: one pass through the loop body on response resp.
Iteration(resp, handle_429) ==
    LET t == TryBody(resp)
        h == IF t.flow = "except" THEN ExceptClauses(t.out.exc, resp, handle_429) ELSE t
        a == IF h.flow = "fall" THEN AfterTry(handle_429) ELSE h
    IN  Flow(a.flow, a.out, h.events)

(***************************************************************************)
(* get_general: the query builder of the "general" resource.  A dict is a  *)
(* function from its keys; an assignment adds or replaces one key.         *)
(***************************************************************************)
EmptyDict == <<>>

Put(d, k, v) == [x \in (DOMAIN d) \cup {k} |-> IF x = k THEN v ELSE d[x]]

\* f"{v}" of a str or an int.
Format(v) == IF v.type = "int" THEN IntToStr(v.val) ELSE v.chars

Eq(v) == <<"e", "q", ".">> \o v

ILike(v) == <<"i", "l", "i", "k", "e", ".", "*">> \o v \o <<"*">>

GeneralArgs(columns, report_id, auditee_uei, auditee_ein, auditee_name, auditee_city, auditee_state, audit_year) ==
    [columns |-> columns, report_id |-> report_id, auditee_uei |-> auditee_uei,
     auditee_ein |-> auditee_ein, auditee_name |-> auditee_name,
     auditee_city |-> auditee_city, auditee_state |-> auditee_state,
     audit_year |-> audit_year]

\* Lines 177-196: the params dict, or the TypeError of a columns that is no list.
get_general_params(a) ==
    LET p0 == EmptyDict
        p1 == IF a.columns.type = "list" THEN Put(p0, "select", Join(a.columns.items)) ELSE p0
        p2 == IF a.report_id.type # "NoneType"
              THEN Put(p1, "report_id", Eq(Format(a.report_id))) ELSE p1
        p3 == IF a.auditee_uei.type # "NoneType"
              THEN Put(p2, "auditee_uei", Eq(Format(a.auditee_uei))) ELSE p2
        p4 == IF a.auditee_ein.type # "NoneType"
              THEN Put(p3, "auditee_ein", Eq(Format(a.auditee_ein))) ELSE p3
        p5 == IF a.auditee_name.type # "NoneType"
              THEN Put(p4, "auditee_name", ILike(Format(a.auditee_name))) ELSE p4
        p6 == IF a.auditee_city.type # "NoneType"
              THEN Put(p5, "auditee_city", Eq(Format(a.auditee_city))) ELSE p5
        p7 == IF a.auditee_state.type # "NoneType"
              THEN Put(p6, "auditee_state", Eq(Upper(Strip(a.auditee_state.chars)))) ELSE p6
        p8 == IF a.audit_year.type # "NoneType"
              THEN Put(p7, "audit_year", Eq(Format(a.audit_year))) ELSE p7
    IN  IF a.columns.type \notin {"NoneType", "list"}
        THEN [raised |-> "TypeError", params |-> EmptyDict]
        ELSE [raised |-> "", params |-> p8]

(***************************************************************************)
(* get_federal_awards: the query builder of the "federal_awards" resource. *)
(***************************************************************************)
\* f"eq.*{v}*"
EqStar(v) == <<"e", "q", ".", "*">> \o v \o <<"*">>

FederalArgs(columns, report_id, federal_agency_prefix, federal_award_extension, additional_award_identification, federal_program_name, cluster_name) ==
    [columns |-> columns, report_id |-> report_id,
     federal_agency_prefix |-> federal_agency_prefix,
     federal_award_extension |-> federal_award_extension,
     additional_award_identification |-> additional_award_identification,
     federal_program_name |-> federal_program_name, cluster_name |-> cluster_name]

NoFederalArgs == FederalArgs(PyNone, PyNone, PyNone, PyNone, PyNone, PyNone, PyNone)

\* As Assign, adding the key to the dict instead of starting a new dict.
Assign_Merges(params, k, v) == Put(params, k, v)

\* Lines 258-268: params = {k: v}, a new dict with one key.
Assign(params, k, v) == Put(EmptyDict, k, v)

\* Lines 251-268: the params dict, or the TypeError of a columns that is no list.
get_federal_awards_params(a) ==
    LET p0 == EmptyDict
        p1 == IF a.columns.type = "list" THEN Put(p0, "select", Join(a.columns.items)) ELSE p0
        p2 == IF a.report_id.type # "NoneType"
              THEN Assign(p1, "report_id", Eq(Format(a.report_id))) ELSE p1
        p3 == IF a.federal_agency_prefix.type # "NoneType"
              THEN Assign(p2, "federal_agency_prefix", Eq(Format(a.federal_agency_prefix)))
              ELSE p2
        p4 == IF a.federal_agency_prefix.type # "NoneType"
                 /\ a.federal_award_extension.type # "NoneType"
              THEN Assign(p3, "federal_award_extension", Eq(Format(a.federal_award_extension)))
              ELSE p3
        p5 == IF a.additional_award_identification.type # "NoneType"
              THEN Assign(p4, "additional_award_identification",
                          EqStar(Format(a.additional_award_identification)))
              ELSE p4
        p6 == IF a.federal_program_name.type # "NoneType"
              THEN Assign(p5, "federal_program_name", ILike(Format(a.federal_program_name)))
              ELSE p5
        p7 == IF a.cluster_name.type # "NoneType"
              THEN Assign(p6, "cluster_name", ILike(Format(a.cluster_name))) ELSE p6
    IN  IF a.columns.type \notin {"NoneType", "list"}
        THEN [raised |-> "TypeError", params |-> EmptyDict]
        ELSE [raised |-> "", params |-> p7]

(***************************************************************************)
(* State.                                                                  *)
(***************************************************************************)
VARIABLES
    max_audit_year,      \* self.max_audit_year, the year the client was built in
    all_auditee_states,  \* self.all_auditee_states
    op,                  \* the public operation the caller started
    mr,                  \* the frame of _make_request: position and arguments
    response,            \* the answer to the last session.get of _make_request
    trace,               \* events of the current call of _make_request
    mr_out,              \* how the current call of _make_request ended
    gag,                 \* the frame of get_all_general: position and locals
    gg_calls,            \* the get_general calls the sweep made, with their results
    ret,                 \* how the public operation ended
    fa,                  \* the frame of get_all_federal_awards: position and locals
    fa_events,           \* requests and sleeps of the batch last requested
    fa_batches,          \* the batches processed so far, with how each ended
    gfa                  \* the arguments of the call of get_federal_awards

vars == <<max_audit_year, all_auditee_states, op, mr, response, trace, mr_out, gag,
          gg_calls, ret, fa, fa_events, fa_batches, gfa>>

collector == <<fa, fa_events, fa_batches>>

config == <<max_audit_year, all_auditee_states>>

MRFrame(pc, arg, endpoint_name, url, params, handle_429) ==
    [pc |-> pc, arg |-> arg, endpoint_name |-> endpoint_name, url |-> url,
     params |-> params, handle_429 |-> handle_429]

MRIdle == MRFrame("idle", PyNone, <<>>, <<>>, EmptyDict, FALSE)

\* Entry of _make_request(endpoint_name, params, handle_429).
MREnter(arg, params, handle_429) == MRFrame("validate", arg, <<>>, <<>>, params, handle_429)

GAGFrame(pc, columns, year, si, all_results, printed) ==
    [pc |-> pc, columns |-> columns, year |-> year, si |-> si,
     all_results |-> all_results, printed |-> printed]

GAGIdle == GAGFrame("idle", PyNone, 0, 0, <<>>, <<>>)

\* The locals of get_all_federal_awards; i is the index of the outer loop,
\* printed what the run wrote to standard output.
FAIdle ==
    [pc |-> "idle", batch_size |-> 0, show_progress |-> FALSE, report_ids |-> <<>>,
     all_results |-> <<>>, total_batches |-> 0, failed_batches |-> <<>>, i |-> 0,
     batch_num |-> 0, batch_ids |-> <<>>, attempt |-> 0, retry_delay |-> 0,
     batch_success |-> FALSE, printed |-> <<>>]

Init ==
    /\ max_audit_year \in min_audit_year..(min_audit_year + MaxYearSpan - 1)
    /\ all_auditee_states \in {SubSeq(FACStates, 1, n) : n \in 1..MaxStates}
    /\ op = "idle"
    /\ mr = MRIdle
    /\ response = Unbound
    /\ trace = <<>>
    /\ mr_out = NoOutcome
    /\ gag = GAGIdle
    /\ gg_calls = <<>>
    /\ ret = NoOutcome
    /\ fa = FAIdle
    /\ fa_events = <<>>
    /\ fa_batches = <<>>
    /\ gfa = NoFederalArgs

(***************************************************************************)
(* _make_request.                                                          *)
(***************************************************************************)
\* Endpoint names a caller may pass: known names, names differing from a known
\* one by case or surrounding whitespace, unknown names, "", None and an int.
NameInputs ==
    { PyStr(<<"g","e","n","e","r","a","l">>)
    , PyStr(<<" ","G","e","n","e","r","a","l"," ">>)
    , PyStr(<<"F","I","N","D","I","N","G","S","\t">>)
    , PyStr(<<"g","e","n","e","r","a","l","s">>)
    , PyStr(<<"g","e","n"," ","e","r","a","l">>)
    , PyStr(<<>>)
    , PyNone
    , PyInt(5) }

\* A caller calls _make_request directly, with no params.
Call_make_request(endpoint_name, handle_429) ==
    /\ op = "idle"
    /\ op' = "_make_request"
    /\ mr' = MREnter(endpoint_name, EmptyDict, handle_429)
    /\ UNCHANGED <<collector, gfa, config, response, trace, mr_out, gag, gg_calls, ret>>

\* Lines 98-101: the outcome of validation, and the normalised name.
ValidateEndpoint(arg) ==
    LET v == validate_string(arg)
    IN  IF v.raised # "" THEN [out |-> Raise(v.raised, "input_string", ""), name |-> <<>>]
        ELSE IF v.value \notin DOMAIN endpoints
        THEN [out |-> Raise("ValueError", "Unknown endpoint", ""), name |-> v.value]
        ELSE [out |-> NoOutcome, name |-> v.value]

\* Lines 97-104: validation and the url.
MR_Validate ==
    /\ mr.pc = "validate"
    /\ LET v == ValidateEndpoint(mr.arg)
       IN  IF v.out.kind = "raise"
           THEN /\ mr' = [mr EXCEPT !.pc = "done"]
                /\ mr_out' = v.out
           ELSE /\ mr' = [mr EXCEPT !.pc = "loop", !.endpoint_name = v.name,
                                    !.url = base_url \o endpoints[v.name]]
                /\ mr_out' = mr_out
    /\ UNCHANGED <<collector, gfa, config, op, response, trace, gag, gg_calls, ret>>

NumGets(t) == Cardinality({i \in 1..Len(t) : t[i].ev = "get"})

\* Lines 106-148: one iteration: the request, the server's answer, its handling.
MR_Iteration ==
    /\ mr.pc = "loop"
    /\ NumGets(trace) < MaxRequests
    /\ \E resp \in Responses :
         LET r == Iteration(resp, mr.handle_429)
         IN  /\ trace' = trace \o <<GetEvent(mr.url, mr.params)>> \o r.events
             /\ response' = resp
             /\ mr_out' = r.out
             /\ mr' = [mr EXCEPT !.pc = IF r.flow = "continue" THEN "loop" ELSE "done"]
    /\ UNCHANGED <<collector, gfa, config, op, gag, gg_calls, ret>>

(***************************************************************************)
(* get_federal_awards.                                                     *)
(***************************************************************************)
\* What a caller may pass for a filter: None or the given text.
Maybe(text) == {PyNone, PyStr(text)}

\* The calls a caller may make: columns None, ['report_id'] or the str
\* 'report_id', and every filter given or not, each with a text of its own.
FederalInputs ==
    { FederalArgs(c, r, p, x, a, n, k) :
        c \in { PyNone
               , PyList(<< <<"r","e","p","o","r","t","_","i","d">> >>)
               , PyStr(<<"r","e","p","o","r","t","_","i","d">>) },
        r \in Maybe(<<"R", "1">>),
        p \in Maybe(<<"1", "0">>),
        x \in Maybe(<<"5", "5", "3">>),
        a \in Maybe(<<"A", "7">>),
        n \in Maybe(<<"W", "I", "C">>),
        k \in Maybe(<<"S", "N", "A", "P">>) }

\* Lines 226-270: the params are built and _make_request is entered, or the
\* TypeError of the columns check is raised; what _make_request returns or
\* raises is the outcome of the call.
Call_get_federal_awards(a, handle_429) ==
    /\ op = "idle"
    /\ op' = "get_federal_awards"
    /\ gfa' = a
    /\ LET b == get_federal_awards_params(a)
       IN  IF b.raised # ""
           THEN /\ ret' = Raise(b.raised, "columns must be a list", "")
                /\ mr' = mr
           ELSE /\ ret' = ret
                /\ mr' = MREnter(PyStr(<<"f","e","d","e","r","a","l","_","a","w","a","r","d","s">>),
                                 b.params, handle_429)
    /\ UNCHANGED <<collector, config, response, trace, mr_out, gag, gg_calls>>

(***************************************************************************)
(* get_all_general: the sweep over years and jurisdictions.                *)
(***************************************************************************)
\* What a caller may pass as columns: None, ['report_id'], or the str 'report_id'.
ColumnInputs ==
    { PyNone
    , PyList(<< <<"r","e","p","o","r","t","_","i","d">> >>)
    , PyStr(<<"r","e","p","o","r","t","_","i","d">>) }

\* Line 210: entry; the loops start at (min_audit_year, first jurisdiction).
Call_get_all_general(columns) ==
    /\ op = "idle"
    /\ op' = "get_all_general"
    /\ gag' = GAGFrame("loop", columns, min_audit_year, 1, <<>>, <<>>)
    /\ UNCHANGED <<collector, gfa, config, mr, response, trace, mr_out, gg_calls, ret>>

CallRecord(year, state, status, records) ==
    [audit_year |-> year, auditee_state |-> state, status |-> status, records |-> records]

\* Lines 213-214: the loops have a pair left while the year is in range.
HasPair(year) == year <= max_audit_year /\ all_auditee_states # <<>>

\* As Advance, with the inner loop left after its first jurisdiction.
Advance_BreaksInner(year, si) == [year |-> year + 1, si |-> 1]

\* Lines 213-214: the loop position after the pair (year, si).
Advance(year, si) ==
    IF si < Len(all_auditee_states) THEN [year |-> year, si |-> si + 1]
    ELSE [year |-> year + 1, si |-> 1]

\* As Extend, keeping only the records not collected yet.
RECURSIVE Extend_Dedup(_, _)
Extend_Dedup(all_results, results) ==
    IF results = <<>> THEN all_results
    ELSE IF \E i \in 1..Len(all_results) : all_results[i] = Head(results)
    THEN Extend_Dedup(all_results, Tail(results))
    ELSE Extend_Dedup(Append(all_results, Head(results)), Tail(results))

\* Line 219: all_results.extend(results)
Extend(all_results, results) == all_results \o results

\* As PairDisposition, catching only the HTTP errors among the APIErrors.
PairDisposition_Narrow(out) ==
    IF out.kind = "list" THEN "extend"
    ELSE IF out.kind = "raise" /\ out.exc = "APIError" /\ out.cause = "HTTPError" THEN "skip"
    ELSE "propagate"

\* Lines 217-221: what the try statement does with the outcome of get_general:
\* "extend", "skip" (except APIError) or "propagate".
PairDisposition(out) ==
    IF out.kind = "list" THEN "extend"
    ELSE IF out.kind = "raise" /\ out.exc = "APIError" THEN "skip"
    ELSE "propagate"

\* Line 218 (and 177-198): get_general builds the params and enters _make_request,
\* or raises the TypeError of its columns check.
GAG_Call ==
    /\ gag.pc = "loop"
    /\ HasPair(gag.year)
    /\ LET state == all_auditee_states[gag.si]
           b == get_general_params(GeneralArgs(gag.columns, PyNone, PyNone, PyNone, PyNone,
                                               PyNone, PyStr(state), PyInt(gag.year)))
       IN  IF b.raised # ""
           THEN /\ gag' = [gag EXCEPT !.pc = "done"]
                /\ ret' = Raise(b.raised, "columns must be a list", "")
                /\ gg_calls' = Append(gg_calls, CallRecord(gag.year, state, b.raised, <<>>))
                /\ UNCHANGED <<mr, response, trace, mr_out>>
           ELSE /\ gag' = [gag EXCEPT !.pc = "calling"]
                /\ mr' = MREnter(PyStr(<<"g","e","n","e","r","a","l">>), b.params, TRUE)
                /\ response' = Unbound
                /\ trace' = <<>>
                /\ mr_out' = NoOutcome
                /\ gg_calls' = Append(gg_calls, CallRecord(gag.year, state, "pending", <<>>))
                /\ ret' = ret
    /\ UNCHANGED <<collector, gfa, config, op>>

SetLast(calls, status, records) ==
    [calls EXCEPT ![Len(calls)].status = status, ![Len(calls)].records = records]

\* Lines 218-221: get_general came back; extend, or print the error and go on,
\* or let an exception that is no APIError leave the sweep.
GAG_Receive ==
    /\ gag.pc = "calling"
    /\ mr.pc = "done"
    /\ LET d == PairDisposition(mr_out)
           n == Advance(gag.year, gag.si)
       IN  \/ /\ d = "extend"
              /\ gag' = [gag EXCEPT !.pc = "loop", !.year = n.year, !.si = n.si,
                                    !.all_results = Extend(gag.all_results, mr_out.value)]
              /\ gg_calls' = SetLast(gg_calls, "ok", mr_out.value)
              /\ ret' = ret
           \/ /\ d = "skip"
              /\ gag' = [gag EXCEPT !.pc = "loop", !.year = n.year, !.si = n.si,
                                    !.printed = Append(gag.printed, <<gag.year, gag.si>>)]
              /\ gg_calls' = SetLast(gg_calls, "APIError", <<>>)
              /\ ret' = ret
           \/ /\ d = "propagate"
              /\ gag' = [gag EXCEPT !.pc = "done"]
              /\ gg_calls' = SetLast(gg_calls, "raised", <<>>)
              /\ ret' = IF mr_out.kind = "raise" THEN mr_out
                        ELSE Raise("TypeError", "'NoneType' object is not iterable", "")
    /\ mr' = MRIdle
    /\ response' = Unbound
    /\ trace' = <<>>
    /\ mr_out' = NoOutcome
    /\ UNCHANGED <<collector, gfa, config, op>>

\* Line 224: both loops are exhausted.
GAG_Return ==
    /\ gag.pc = "loop"
    /\ ~HasPair(gag.year)
    /\ gag' = [gag EXCEPT !.pc = "done"]
    /\ ret' = ReturnList(gag.all_results)
    /\ UNCHANGED <<collector, gfa, config, op, mr, response, trace, mr_out, gg_calls>>

(***************************************************************************)
(* get_all_federal_awards: the harvest of the report ids with the sweep,   *)
(* then one request per batch of ids, retried on network errors.  Sleeps   *)
(* are logged in milliseconds.  save_progress only selects a message after *)
(* every hundredth batch and is left out.                                  *)
(***************************************************************************)
\* Batch sizes a caller may pass.
BatchSizes == 1..MaxBatchSize

\* Line 312.
max_retries == 3

\* Line 313: retry_delay at the start of a batch, in seconds.
initial_retry_delay == 5

\* Line 352: time.sleep(0.5), in milliseconds.
pace_ms == 500

BatchEvent(ev, ms) == [ev |-> ev, ms |-> ms]

Printed(what, n) == [what |-> what, n |-> n]

\* Line 291, the comprehension: record['report_id'] of the records with the key.
RECURSIVE HarvestedIds(_)
HarvestedIds(records) ==
    IF records = <<>> THEN <<>>
    ELSE (IF "report_id" \in DOMAIN Head(records) THEN <<Head(records).report_id>> ELSE <<>>)
         \o HarvestedIds(Tail(records))

\* As ListOfSet, without the set: list(ids).
ListOfSet_KeepsDuplicates(ids) == {ids}

\* Line 291, list(set(ids)): the distinct ids, in whatever order the set
\* iterates; every order is possible.
ListOfSet(ids) ==
    LET S == {ids[k] : k \in DOMAIN ids}
        n == Cardinality(S)
    IN  {f \in [1..n -> S] : \A a, b \in 1..n : f[a] = f[b] => a = b}

\* Line 300.
TotalBatches(n, batch_size) == (n + batch_size - 1) \div batch_size

\* Line 305.
BatchNum(i, batch_size) == (i \div batch_size) + 1

\* As BatchIds, with the slice one key short: report_ids[i:i + batch_size - 1].
BatchIds_Short(report_ids, i, batch_size) ==
    SubSeq(report_ids, i + 1, IF i + batch_size - 1 < Len(report_ids) THEN i + batch_size - 1
                              ELSE Len(report_ids))

\* Line 306: report_ids[i:i + batch_size], i counted from 0.
BatchIds(report_ids, i, batch_size) ==
    SubSeq(report_ids, i + 1, IF i + batch_size < Len(report_ids) THEN i + batch_size
                              ELSE Len(report_ids))

\* Line 320: f"in.({','.join(batch_ids)})"
IdFilter(batch_ids) == <<"i", "n", ".", "(">> \o Join(batch_ids) \o <<")">>

\* Line 335: the text of the error mentions "Failed to connect", "Failed to
\* resolve" or "NameResolutionError".  The first is the message of line 139; the
\* other two occur only in the text of a connection error, behind that message.
NetworkError(e) == e.msg = "Failed to connect"

\* As AttemptDisposition, retrying after every APIError before the last attempt.
AttemptDisposition_RetriesAll(out, attempt) ==
    IF out.kind = "list" THEN "success"
    ELSE IF out.kind = "raise" /\ out.exc = "APIError"
    THEN (IF attempt < max_retries - 1 THEN "retry" ELSE "break")
    ELSE "propagate"

\* As AttemptDisposition, retrying after a network error on the last attempt too.
AttemptDisposition_NoCap(out, attempt) ==
    IF out.kind = "list" THEN "success"
    ELSE IF out.kind = "raise" /\ out.exc = "APIError"
    THEN (IF NetworkError(out) THEN "retry" ELSE "break")
    ELSE "propagate"

\* Lines 317-345: what an attempt's outcome leads to: "success", "retry" (sleep
\* and continue), "break" (the batch has failed), or "propagate" (an exception
\* that is no APIError leaves the function).
AttemptDisposition(out, attempt) ==
    IF out.kind = "list" THEN "success"
    ELSE IF out.kind = "raise" /\ out.exc = "APIError"
    THEN (IF attempt < max_retries - 1 /\ NetworkError(out) THEN "retry" ELSE "break")
    ELSE "propagate"

\* As NextDelay, without the doubling.
NextDelay_Constant(retry_delay) == retry_delay

\* Line 339.
NextDelay(retry_delay) == retry_delay * 2

\* As FailedBatches, listing the batch whether it succeeded or not.
FailedBatches_Always(failed_batches, batch_success, batch_num, batch_ids) ==
    Append(failed_batches, <<batch_num, batch_ids>>)

\* Lines 347-348.
FailedBatches(failed_batches, batch_success, batch_num, batch_ids) ==
    IF ~batch_success THEN Append(failed_batches, <<batch_num, batch_ids>>)
    ELSE failed_batches

\* As Paces, sleeping after the last batch too.
Paces_Always(batch_num, total_batches) == TRUE

\* Line 351.
Paces(batch_num, total_batches) == batch_num < total_batches

BatchRecord(batch_num, batch_ids, outcome, records) ==
    [batch_num |-> batch_num, batch_ids |-> batch_ids, outcome |-> outcome,
     records |-> records, paced |-> FALSE]

\* Lines 272-288: entry, and the call of get_all_general(columns=['report_id']).
Call_get_all_federal_awards(batch_size, show_progress) ==
    /\ op = "idle"
    /\ op' = "get_all_federal_awards"
    /\ fa' = [FAIdle EXCEPT !.pc = "harvest", !.batch_size = batch_size,
                            !.show_progress = show_progress]
    /\ gag' = GAGFrame("loop", PyList(<< <<"r","e","p","o","r","t","_","i","d">> >>),
                       min_audit_year, 1, <<>>, <<>>)
    /\ UNCHANGED <<gfa, config, mr, response, trace, mr_out, gg_calls, ret, fa_events, fa_batches>>

\* Lines 288-302: the sweep is over.  An exception of the sweep is raised again
\* as an APIError; otherwise the ids are deduplicated and the batches counted.
FA_Harvested ==
    /\ fa.pc = "harvest"
    /\ gag.pc = "done"
    /\ IF ret.kind = "raise"
       THEN /\ fa' = [fa EXCEPT !.pc = "done"]
            /\ ret' = Raise("APIError", "Failed to get general records", ret.exc)
       ELSE /\ \E ids \in ListOfSet(HarvestedIds(ret.value)) :
                  fa' = [fa EXCEPT !.pc = "batch_loop", !.report_ids = ids, !.i = 0,
                                   !.total_batches = TotalBatches(Len(ids), fa.batch_size)]
            /\ ret' = NoOutcome
    /\ gag' = GAGIdle
    /\ gg_calls' = <<>>
    /\ UNCHANGED <<gfa, config, op, mr, response, trace, mr_out, fa_events, fa_batches>>

\* As BatchLocals, with retry_delay set once, before the first batch.
BatchLocals_DelaySetOnce(f) ==
    [f EXCEPT !.attempt = 0, !.batch_success = FALSE,
              !.retry_delay = IF f.retry_delay = 0 THEN initial_retry_delay ELSE f.retry_delay]

\* Lines 312-316: the retry locals of a batch: retry_delay = 5,
\* batch_success = False, and range(max_retries) starts at attempt 0.
BatchLocals(f) ==
    [f EXCEPT !.attempt = 0, !.batch_success = FALSE, !.retry_delay = initial_retry_delay]

\* Lines 304-314: the next batch.
FA_BatchStart ==
    /\ fa.pc = "batch_loop"
    /\ fa.i < Len(fa.report_ids)
    /\ fa' = [BatchLocals(fa) EXCEPT !.pc = "attempt",
                        !.batch_num = BatchNum(fa.i, fa.batch_size),
                        !.batch_ids = BatchIds(fa.report_ids, fa.i, fa.batch_size)]
    /\ UNCHANGED <<gfa, config, op, mr, response, trace, mr_out, gag, gg_calls, ret,
                   fa_events, fa_batches>>

\* Lines 316-323: an attempt enters _make_request with the batch's filter.  The
\* log starts anew with the first request of a batch.
FA_Attempt ==
    /\ fa.pc = "attempt"
    /\ fa.attempt < max_retries
    /\ fa' = [fa EXCEPT !.pc = "calling"]
    /\ mr' = MREnter(PyStr(<<"f","e","d","e","r","a","l","_","a","w","a","r","d","s">>),
                     Put(EmptyDict, "report_id", IdFilter(fa.batch_ids)), TRUE)
    /\ response' = Unbound
    /\ trace' = <<>>
    /\ mr_out' = NoOutcome
    /\ fa_events' = IF fa.attempt = 0 THEN <<BatchEvent("request", 0)>>
                    ELSE Append(fa_events, BatchEvent("request", 0))
    /\ UNCHANGED <<gfa, config, op, gag, gg_calls, ret, fa_batches>>

\* Lines 323-345: _make_request came back.
FA_Receive ==
    /\ fa.pc = "calling"
    /\ mr.pc = "done"
    /\ LET d == AttemptDisposition(mr_out, fa.attempt)
       IN  \/ /\ d = "success"
              /\ fa' = [fa EXCEPT !.pc = "batch_end", !.batch_success = TRUE,
                                  !.all_results = Extend(fa.all_results, mr_out.value)]
              /\ fa_batches' = Append(fa_batches,
                                  BatchRecord(fa.batch_num, fa.batch_ids, "ok", mr_out.value))
              /\ UNCHANGED <<fa_events, ret>>
           \/ /\ d = "retry"
              /\ fa' = [fa EXCEPT !.pc = "attempt", !.attempt = fa.attempt + 1,
                                  !.retry_delay = NextDelay(fa.retry_delay)]
              /\ fa_events' = Append(fa_events, BatchEvent("backoff", fa.retry_delay * 1000))
              /\ UNCHANGED <<fa_batches, ret>>
           \/ /\ d = "break"
              /\ fa' = [fa EXCEPT !.pc = "batch_end",
                                  !.printed = IF fa.show_progress
                                              THEN Append(fa.printed,
                                                     Printed("Error processing batch", fa.batch_num))
                                              ELSE fa.printed]
              /\ fa_batches' = Append(fa_batches,
                                  BatchRecord(fa.batch_num, fa.batch_ids, "failed", <<>>))
              /\ UNCHANGED <<fa_events, ret>>
           \/ /\ d = "propagate"
              /\ fa' = [fa EXCEPT !.pc = "done"]
              /\ ret' = IF mr_out.kind = "raise" THEN mr_out
                        ELSE Raise("TypeError", "'NoneType' object is not iterable", "")
              /\ UNCHANGED <<fa_events, fa_batches>>
    /\ mr' = MRIdle
    /\ response' = Unbound
    /\ trace' = <<>>
    /\ mr_out' = NoOutcome
    /\ UNCHANGED <<gfa, config, op, gag, gg_calls>>

\* Lines 347-352: the batch is over: its failure is recorded, and the pacing
\* sleep taken unless it was the last batch.
FA_BatchEnd ==
    /\ fa.pc = "batch_end"
    /\ LET p == Paces(fa.batch_num, fa.total_batches)
       IN  /\ fa' = [fa EXCEPT !.pc = "batch_loop", !.i = fa.i + fa.batch_size,
                               !.failed_batches = FailedBatches(fa.failed_batches,
                                   fa.batch_success, fa.batch_num, fa.batch_ids)]
           /\ fa_events' = IF p THEN Append(fa_events, BatchEvent("pace", pace_ms))
                           ELSE fa_events
           /\ fa_batches' = [fa_batches EXCEPT ![Len(fa_batches)].paced = p]
    /\ UNCHANGED <<gfa, config, op, mr, response, trace, mr_out, gag, gg_calls, ret>>

\* Lines 304 and 359-363: the batches are exhausted; the summary is printed
\* under show_progress, and the function runs off its end.
FA_Finish ==
    /\ fa.pc = "batch_loop"
    /\ fa.i >= Len(fa.report_ids)
    /\ fa' = [fa EXCEPT !.pc = "done",
                        !.printed =
                            IF ~fa.show_progress THEN fa.printed
                            ELSE fa.printed
                                 \o <<Printed("Completed", Len(fa.all_results))>>
                                 \o (IF fa.failed_batches # <<>>
                                     THEN <<Printed("Warning", Len(fa.failed_batches))>>
                                     ELSE <<>>)]
    /\ ret' = ReturnNone
    /\ UNCHANGED <<gfa, config, op, mr, response, trace, mr_out, gag, gg_calls, fa_events, fa_batches>>

Next ==
    \/ \E n \in NameInputs, h \in BOOLEAN : Call_make_request(n, h)
    \/ MR_Validate
    \/ MR_Iteration
    \/ \E c \in ColumnInputs : Call_get_all_general(c)
    \/ GAG_Call
    \/ GAG_Receive
    \/ GAG_Return

Spec == Init /\ [][Next]_vars

\* A run of get_all_federal_awards, with the sweep and the requests under it.
NextFA ==
    \/ \E b \in BatchSizes, p \in BOOLEAN : Call_get_all_federal_awards(b, p)
    \/ GAG_Call
    \/ GAG_Receive
    \/ GAG_Return
    \/ MR_Validate
    \/ MR_Iteration
    \/ FA_Harvested
    \/ FA_BatchStart
    \/ FA_Attempt
    \/ FA_Receive
    \/ FA_BatchEnd
    \/ FA_Finish

\* The client of such a run: built in the first audit year, with the longest
\* jurisdiction list of the model.
InitFA ==
    /\ Init
    /\ max_audit_year = min_audit_year
    /\ Len(all_auditee_states) = MaxStates

SpecFA == InitFA /\ [][NextFA]_vars

\* A call of get_federal_awards, with the request under it.
NextAwards ==
    \/ \E a \in FederalInputs, h \in BOOLEAN : Call_get_federal_awards(a, h)
    \/ MR_Validate
    \/ MR_Iteration

SpecAwards == InitFA /\ [][NextAwards]_vars

(***************************************************************************)
(* Properties of _make_request.  The expected values below are written out *)
(* case by case, not computed with the operators of the model.             *)
(***************************************************************************)
InCall == mr.pc \in {"validate", "loop", "done"}

Answered429 == InCall /\ response.kind = "response" /\ response.status = 429

RateLimitError == Raise("APIError", "Rate limit exceeded", "HTTPError")

\* Retry-After headers that are a number of seconds, with that number.
NumericHints ==
    { [hdr |-> Hdr(<<"-", "1">>), secs |-> -1]
    , [hdr |-> Hdr(<<"0">>), secs |-> 0]
    , [hdr |-> Hdr(<<"2">>), secs |-> 2] }

\* Retry-After headers that are absent, empty, no number, negative or nan.
UnusableHints ==
    { NoHeader, Hdr(<<>>), Hdr(<<"a", "b", "c">>), Hdr(<<"-", "1">>), Hdr(<<"n", "a", "n">>) }

\* The step is an iteration of the loop of _make_request.
IterationStep == mr.pc = "loop" /\ trace' # trace

\* C1: under handle_429, a 429 whose Retry-After is absent or is no non-negative
\* number of seconds ends the call with the rate-limit error (the request is not
\* sent again without a delay).
C1_UnusableHintRaises ==
    (Answered429 /\ mr.handle_429 /\ response.retry_after \in UnusableHints)
        => (mr.pc = "done" /\ mr_out = RateLimitError)

C3_Unhandled429Raises ==
    (Answered429 /\ ~mr.handle_429)
        => /\ mr.pc = "done"
           /\ mr_out = RateLimitError
           /\ trace = <<GetEvent(mr.url, mr.params)>>

C3_Witness ==
    /\ Answered429 /\ ~mr.handle_429
    /\ response.retry_after = Hdr(<<"2">>)
    /\ mr_out = RateLimitError

\* What the name inputs are after trimming and lower-casing: a known endpoint,
\* or nothing the endpoint map holds.
KnownAs ==
    { [arg |-> PyStr(<<"g","e","n","e","r","a","l">>), name |-> <<"g","e","n","e","r","a","l">>]
    , [arg |-> PyStr(<<" ","G","e","n","e","r","a","l"," ">>), name |-> <<"g","e","n","e","r","a","l">>]
    , [arg |-> PyStr(<<"F","I","N","D","I","N","G","S","\t">>), name |-> <<"f","i","n","d","i","n","g","s">>] }

UnknownArgs ==
    { PyStr(<<"g","e","n","e","r","a","l","s">>), PyStr(<<"g","e","n"," ","e","r","a","l">>),
      PyStr(<<>>), PyNone, PyInt(5) }

\* C4: a name that is no endpoint after trimming and lower-casing makes the call
\* raise before any request is sent; a name that differs from an endpoint by case
\* or surrounding whitespace only passes validation as that endpoint.
C4_ValidatesBeforeNetwork ==
    /\ (InCall /\ mr.arg \in UnknownArgs)
          => /\ trace = <<>> /\ response = Unbound
             /\ mr.pc \in {"validate", "done"}
             /\ mr.pc = "done" => (mr_out.kind = "raise" /\ mr_out.exc \in {"ValueError", "TypeError"})
    /\ \A k \in KnownAs :
          (mr.pc \in {"loop", "done"} /\ mr.arg = k.arg)
             => /\ mr.endpoint_name = k.name
                /\ mr.url = base_url \o <<"/">> \o k.name
                /\ trace # <<>> \/ mr.pc = "loop"
    /\ InCall => \/ mr.arg \in UnknownArgs
                 \/ \E k \in KnownAs : mr.arg = k.arg

C4_Witness ==
    /\ mr.pc = "done" /\ mr.arg = PyStr(<<"g","e","n"," ","e","r","a","l">>)
    /\ mr_out.kind = "raise" /\ mr_out.exc = "ValueError" /\ trace = <<>>

\* C5: a call of _make_request that has completed has exactly one outcome, a
\* list or a raised error, never a returned None; a call that has not completed
\* has none.
C5_ListOrError ==
    /\ mr.pc = "done" => mr_out.kind \in {"list", "raise"}
    /\ mr.pc \in {"validate", "loop"} => mr_out = NoOutcome
    /\ mr_out.kind = "list" => mr_out.exc = ""
    /\ mr_out.kind = "raise" => (mr_out.exc # "" /\ mr_out.value = <<>>)

\* A call with handle_429 that came through two silent retries to a list.
C5_Witness ==
    /\ mr.pc = "done" /\ mr.handle_429 /\ NumGets(trace) = 3
    /\ mr_out.kind = "list" /\ mr_out.value # <<>>

\* C6: a 200 whose JSON body is no list ends the call with an empty list and the
\* warning, and no exception, for either handle_429.
C6_NonListGivesEmpty ==
    (InCall /\ response.kind = "response" /\ response.status = 200 /\ response.body = "object")
        => /\ mr.pc = "done"
           /\ mr_out = ReturnList(<<>>)
           /\ trace[Len(trace)] = PrintEvent("print: Warning: Expected list")
           /\ trace[Len(trace) - 1] = GetEvent(mr.url, mr.params)

C6_Witness ==
    /\ mr.pc = "done" /\ mr.handle_429 /\ NumGets(trace) = 2
    /\ response.status = 200 /\ response.body = "object"
    /\ mr_out = ReturnList(<<>>)

InvalidJSON200 ==
    InCall /\ response.kind = "response" /\ response.status = 200 /\ response.body = "invalid"

\* C7, as stated: a 200 whose body is no JSON ends the call with an empty list
\* and no error.
C7_InvalidJSONGivesEmpty ==
    InvalidJSON200 => (mr.pc = "done" /\ mr_out = ReturnList(<<>>))

\* C7, amended: a 200 whose body is no JSON ends the call with an APIError and
\* no list: "Request failed" when the decoding error is a RequestException (the
\* JSONDecodeError of requests), "Invalid JSON response" when it is a plain
\* ValueError.
C7_InvalidJSONRaises ==
    InvalidJSON200
        => /\ mr.pc = "done"
           /\ mr_out.kind = "raise" /\ mr_out.exc = "APIError" /\ mr_out.value = <<>>
           /\ response.jsonexc = "RequestsJSONDecodeError" => mr_out.msg = "Request failed"
           /\ response.jsonexc = "JSONDecodeError" => mr_out.msg = "Invalid JSON response"
           /\ \A i \in 1..Len(trace) : trace[i].ev # "print: Warning: Expected list"

C7_Witness ==
    /\ InvalidJSON200 /\ mr.pc = "done"
    /\ mr_out = Raise("APIError", "Invalid JSON response", "JSONDecodeError")

(***************************************************************************)
(* Properties of get_all_general.                                          *)
(***************************************************************************)
AK == <<"A", "K">>

AL == <<"A", "L">>

\* The (year, jurisdiction) pairs in the order of the claim: years ascending
\* from min_audit_year to max_audit_year, and per year the jurisdictions in the
\* order of all_auditee_states.
Traversal ==
    LET ns == Len(all_auditee_states)
        ny == max_audit_year - min_audit_year + 1
    IN  [k \in 1..(ny * ns) |->
            <<min_audit_year + ((k - 1) \div ns), all_auditee_states[((k - 1) % ns) + 1]>>]

\* The pairs get_general was called with, in call order.
PairsCalled == [k \in 1..Len(gg_calls) |-> <<gg_calls[k].audit_year, gg_calls[k].auditee_state>>]

IsPrefix(a, b) == Len(a) <= Len(b) /\ \A i \in 1..Len(a) : a[i] = b[i]

YearText ==
    [y \in 2016..2019 |->
        CASE y = 2016 -> <<"2", "0", "1", "6">>
          [] y = 2017 -> <<"2", "0", "1", "7">>
          [] y = 2018 -> <<"2", "0", "1", "8">>
          [] y = 2019 -> <<"2", "0", "1", "9">>]

Sweeping == op = "get_all_general"

ListedFailure(r) ==
    \/ r.kind = "response" /\ r.status \in {401, 404, 500}
    \/ r.kind \in {"ConnectionError", "ConnectTimeout", "ReadTimeout"}
    \/ r.kind = "response" /\ r.status = 200 /\ r.body = "invalid"

PairIndex(year, si) == (year - min_audit_year) * Len(all_auditee_states) + si

\* C9: when the request of a pair has failed with one of the listed errors, the
\* sweep goes on with the next pair of the traversal, keeps the records it has
\* and raises nothing; so a sweep never ends with an APIError.
C9_FailureIsSkipped ==
    [][ /\ (gag.pc = "calling" /\ mr.pc = "done" /\ ListedFailure(response))
           => /\ gag'.pc = "loop"
              /\ gag'.all_results = gag.all_results
              /\ PairIndex(gag'.year, gag'.si) = PairIndex(gag.year, gag.si) + 1
              /\ ret' = NoOutcome
        /\ (Sweeping' /\ ret'.kind = "raise") => ret'.exc # "APIError" ]_vars

\* A sweep whose first pair failed, whose second pair was still requested, and
\* which returned the records of the second pair.
C9_Witness ==
    /\ Sweeping /\ ret.kind = "list" /\ ret.value # <<>>
    /\ Len(gg_calls) >= 2
    /\ gg_calls[1].status = "APIError" /\ gg_calls[2].status = "ok"

RECURSIVE ConcatOk(_)
ConcatOk(calls) ==
    IF calls = <<>> THEN <<>>
    ELSE (IF Head(calls).status = "ok" THEN Head(calls).records ELSE <<>>) \o ConcatOk(Tail(calls))

RECURSIVE SumOkLen(_)
SumOkLen(calls) ==
    IF calls = <<>> THEN 0
    ELSE (IF Head(calls).status = "ok" THEN Len(Head(calls).records) ELSE 0) + SumOkLen(Tail(calls))

\* C10: the list the sweep holds, and returns, is the concatenation in call order
\* of the lists its successful requests returned, duplicates kept; its length is
\* the sum of their lengths.
C10_ConcatenationInOrder ==
    Sweeping
        => /\ gag.all_results = ConcatOk(gg_calls)
           /\ Len(gag.all_results) = SumOkLen(gg_calls)
           /\ ret.kind = "list" => ret.value = ConcatOk(gg_calls)

\* Two pairs returned the same five records, and the result holds them twice.
C10_Witness ==
    /\ Sweeping /\ ret.kind = "list"
    /\ ret.value = <<Rec(R1), Rec(R1), NoIdRec, Rec(R2), Rec(R3),
                     Rec(R1), Rec(R1), NoIdRec, Rec(R2), Rec(R3)>>

(***************************************************************************)
(* Properties of get_all_federal_awards, stated for SpecFA.                *)
(***************************************************************************)
Collecting == op = "get_all_federal_awards"

\* The sweep under the harvest has come back to get_all_federal_awards.
HarvestOver == Collecting /\ fa.pc = "harvest" /\ gag.pc = "done"

\* Every request of the harvest to the 'general' endpoint failed.
HarvestRequestsFailed ==
    /\ gg_calls # <<>>
    /\ \A k \in 1..Len(gg_calls) : gg_calls[k].status # "ok"

\* C11: a harvest whose requests to the 'general' endpoint all failed ends the
\* run with an error, and no batch is started.
C11_HarvestFailureIsFatal ==
    [][ (HarvestOver /\ HarvestRequestsFailed)
           => (fa'.pc = "done" /\ ret'.kind = "raise") ]_vars

\* The run is over and raised nothing.
RunCompleted == Collecting /\ fa.pc = "done" /\ ret.kind # "raise"

\* The records of the batches whose request succeeded, in batch order.
RECURSIVE ConcatBatches(_)
ConcatBatches(batches) ==
    IF batches = <<>> THEN <<>>
    ELSE (IF Head(batches).outcome = "ok" THEN Head(batches).records ELSE <<>>)
         \o ConcatBatches(Tail(batches))

\* C12: a run that completes returns the list of the records of its successful
\* batches, concatenated in batch order.
C12_ReturnsAllRecords ==
    RunCompleted => (ret.kind = "list" /\ ret.value = ConcatBatches(fa_batches))

\* The harvest is over and the key list is fixed.
Partitioned == Collecting /\ fa.pc \in {"batch_loop", "attempt", "calling", "batch_end"}

\* ceil(n / b): the least k with k * b >= n.
CeilDiv(n, b) == CHOOSE k \in 0..n : k * b >= n /\ \A j \in 0..(k - 1) : j * b < n

RECURSIVE ConcatKeys(_)
ConcatKeys(batches) ==
    IF batches = <<>> THEN <<>> ELSE Head(batches).batch_ids \o ConcatKeys(Tail(batches))

\* C13: for a key list of n keys and a batch size b >= 1, the batches processed
\* so far are numbered 1, 2, ... in order, each holds b keys except that the
\* last of the run may hold between 1 and b, their keys concatenated are the
\* first keys of the key list, and a run that completes has processed exactly
\* ceil(n / b) batches holding the whole key list; with no key there is no
\* batch and no request.
C13_PartitionLaw ==
    LET n == Len(fa.report_ids)
        b == fa.batch_size
        k == Len(fa_batches)
    IN  /\ (Partitioned \/ RunCompleted)
           => /\ \A j \in 1..k :
                   /\ fa_batches[j].batch_num = j
                   /\ Len(fa_batches[j].batch_ids) \in 1..b
                   /\ Len(fa_batches[j].batch_ids) < b => (j = CeilDiv(n, b))
              /\ k <= CeilDiv(n, b)
              /\ IsPrefix(ConcatKeys(fa_batches), fa.report_ids)
              /\ fa.total_batches = CeilDiv(n, b)
              /\ n = 0 => (fa_batches = <<>> /\ fa_events = <<>> /\ mr = MRIdle)
        /\ RunCompleted
           => /\ k = CeilDiv(n, b)
              /\ ConcatKeys(fa_batches) = fa.report_ids

\* A run over three keys with batch_size 2 has completed: batch 1 holds two
\* keys and batch 2 the third.
C13_Witness ==
    /\ RunCompleted
    /\ fa.batch_size = 2 /\ Len(fa.report_ids) = 3
    /\ Len(fa_batches) = 2
    /\ Len(fa_batches[1].batch_ids) = 2 /\ Len(fa_batches[2].batch_ids) = 1

\* The report ids of the records that have one.
IdsOf(records) ==
    {records[k].report_id : k \in {j \in 1..Len(records) : "report_id" \in DOMAIN records[j]}}

Occurrences(seq, x) == Cardinality({p \in 1..Len(seq) : seq[p] = x})

\* C14: when the harvest has returned its records, the key list becomes the
\* distinct report ids of those records, each once; from then on the key list,
\* the batch size and the number of batches do not change; and when the run
\* completes every key has been in exactly one batch, exactly once.
C14_DeduplicatedBeforeBatching ==
    [][ /\ (HarvestOver /\ ret.kind = "list")
           => /\ fa'.pc = "batch_loop"
              /\ {fa'.report_ids[p] : p \in 1..Len(fa'.report_ids)} = IdsOf(ret.value)
              /\ \A x \in IdsOf(ret.value) : Occurrences(fa'.report_ids, x) = 1
              /\ fa_batches' = <<>>
        /\ (Partitioned \/ RunCompleted)
           => /\ fa'.report_ids = fa.report_ids
              /\ fa'.batch_size = fa.batch_size
              /\ fa'.total_batches = fa.total_batches
        /\ RunCompleted'
           => \A p \in 1..Len(fa'.report_ids) :
                /\ Occurrences(ConcatKeys(fa_batches'), fa'.report_ids[p]) = 1
                /\ Cardinality({j \in 1..Len(fa_batches') :
                       Occurrences(fa_batches'[j].batch_ids, fa'.report_ids[p]) > 0}) = 1 ]_vars

\* A run has completed over the keys R1, R2 and R3, one per batch; the harvest
\* that gave them held R1 twice in every answer of the server.
C14_Witness ==
    /\ RunCompleted
    /\ {fa.report_ids[p] : p \in 1..Len(fa.report_ids)} = {R1, R2, R3}
    /\ Len(fa.report_ids) = 3
    /\ Len(fa_batches) = 3
    /\ \A l \in RecordLists : l # <<>> => Occurrences(HarvestedIds(l), R1) = 2

\* An attempt's call of _make_request has ended and the batch loop takes over.
Receiving == Collecting /\ fa.pc = "calling" /\ mr.pc = "done"

\* session.get raised a connection failure.
ConnectionFailure == response.kind \in {"ConnectionError", "ConnectTimeout"}

Request == [ev |-> "request", ms |-> 0]

Backoff(ms) == [ev |-> "backoff", ms |-> ms]

\* C15: an attempt that fails with a connection failure is followed by a backoff
\* sleep of 5 s after the first attempt and of 10 s after the second, and by the
\* next attempt; after the third attempt it is followed by no sleep: the batch
\* has then been requested exactly three times, with 5 s and 10 s between, it
\* is appended to failed_batches with its number and keys, and the loop goes on
\* to the next position.
C15_ThreeAttemptsThenFailed ==
    [][ /\ (Receiving /\ ConnectionFailure /\ fa.attempt = 0)
           => /\ fa_events = <<Request>>
              /\ fa_events' = <<Request, Backoff(5000)>>
              /\ fa'.pc = "attempt" /\ fa'.attempt = 1
        /\ (Receiving /\ ConnectionFailure /\ fa.attempt = 1)
           => /\ fa_events = <<Request, Backoff(5000), Request>>
              /\ fa_events' = <<Request, Backoff(5000), Request, Backoff(10000)>>
              /\ fa'.pc = "attempt" /\ fa'.attempt = 2
        /\ (Receiving /\ ConnectionFailure /\ fa.attempt = 2)
           => /\ fa_events = <<Request, Backoff(5000), Request, Backoff(10000), Request>>
              /\ fa_events' = fa_events
              /\ fa'.pc = "batch_end" /\ ~fa'.batch_success
        /\ (Collecting /\ fa.pc = "batch_end" /\ ~fa.batch_success)
           => /\ fa'.failed_batches =
                    Append(fa.failed_batches, <<fa.batch_num, fa.batch_ids>>)
              /\ fa'.pc = "batch_loop"
              /\ fa'.i = fa.batch_num * fa.batch_size
              /\ ret' = NoOutcome ]_vars

\* The first batch was requested three times, with sleeps of 5 s and 10 s after
\* the connection failures of its first two attempts and none after the third;
\* it is in failed_batches, the pacing sleep was taken and keys are left for the
\* next batch.
C15_Witness ==
    /\ Collecting /\ fa.pc = "batch_loop" /\ fa.i < Len(fa.report_ids)
    /\ fa.failed_batches = << <<1, fa.batch_ids>> >>
    /\ fa_events = <<Request, Backoff(5000), Request, Backoff(10000), Request,
                     [ev |-> "pace", ms |-> 500]>>

\* session.get raised a Timeout (a ReadTimeout or a ConnectTimeout).
TimeoutFailure == response.kind \in {"ReadTimeout", "ConnectTimeout"}

\* C16: an attempt before the last that fails with a Timeout is followed by the
\* backoff sleep and by another attempt, as after a connection failure.
C16_TimeoutIsRetried ==
    [][ (Receiving /\ TimeoutFailure /\ fa.attempt < 2)
           => /\ fa'.pc = "attempt"
              /\ fa'.attempt = fa.attempt + 1
              /\ Len(fa_events') = Len(fa_events) + 1
              /\ fa_events'[Len(fa_events')].ev = "backoff" ]_vars

\* The run wrote the message `what` with the number n.
Emitted(what, n) == \E p \in 1..Len(fa.printed) : fa.printed[p] = [what |-> what, n |-> n]

\* C17: when a run completes, whatever show_progress is, the total of the records
\* collected has been written, and so have the number of failed batches and the
\* number of each failed batch (the caller is returned neither).
C17_RunEndReport ==
    RunCompleted
        => /\ Emitted("Completed", Len(fa.all_results))
           /\ fa.failed_batches # <<>> => Emitted("Warning", Len(fa.failed_batches))
           /\ \A f \in 1..Len(fa.failed_batches) :
                 Emitted("Error processing batch", fa.failed_batches[f][1])

\* The server's answer makes the request fail with an authentication, not-found
\* or other HTTP error, or with a body that is no JSON.
NonNetworkFailure ==
    /\ response.kind = "response"
    /\ \/ response.status \in {401, 404, 500}
       \/ response.status = 200 /\ response.body = "invalid"

Requests(events) == Cardinality({p \in 1..Len(events) : events[p].ev = "request"})

\* C18: an attempt that fails with an error that is not network-class ends the
\* attempts of its batch: the batch has been requested once per attempt so far
\* (once if this is the first), no sleep and no further request follows the
\* failure within the batch, nothing is added to the results, and the batch is
\* appended to failed_batches.
C18_NonNetworkFailureEndsBatch ==
    [][ /\ (Receiving /\ NonNetworkFailure)
           => /\ Requests(fa_events) = fa.attempt + 1
              /\ fa.attempt = 0 => fa_events = <<Request>>
              /\ fa_events' = fa_events
              /\ fa'.pc = "batch_end" /\ ~fa'.batch_success
              /\ fa'.all_results = fa.all_results
              /\ fa_batches' = Append(fa_batches,
                    [batch_num |-> fa.batch_num, batch_ids |-> fa.batch_ids,
                     outcome |-> "failed", records |-> <<>>, paced |-> FALSE])
        /\ (Collecting /\ fa.pc = "batch_end" /\ ~fa.batch_success)
           => /\ Len(fa'.failed_batches) = Len(fa.failed_batches) + 1
              /\ fa'.failed_batches[Len(fa'.failed_batches)] = <<fa.batch_num, fa.batch_ids>>
              /\ \A p \in 1..Len(fa_events') : fa_events'[p].ev = "backoff" => p < Len(fa_events)
              /\ Requests(fa_events') = Requests(fa_events) ]_vars

\* A batch failed on its first attempt and was given up without a sleep and
\* without a second request; it is in failed_batches.
C18_Witness ==
    /\ Collecting /\ fa.pc = "batch_loop"
    /\ fa.failed_batches # <<>>
    /\ fa.failed_batches[Len(fa.failed_batches)] = <<fa.batch_num, fa.batch_ids>>
    /\ Requests(fa_events) = 1
    /\ \A p \in 1..Len(fa_events) : fa_events[p].ev # "backoff"

\* The batches whose pass of the loop reached its end (line 348).
Closed == IF fa.pc = "batch_end" THEN SubSeq(fa_batches, 1, Len(fa_batches) - 1) ELSE fa_batches

\* The (number, keys) of the failed batches, in batch order.
RECURSIVE FailedOf(_)
FailedOf(batches) ==
    IF batches = <<>> THEN <<>>
    ELSE (IF Head(batches).outcome = "failed"
          THEN << <<Head(batches).batch_num, Head(batches).batch_ids>> >> ELSE <<>>)
         \o FailedOf(Tail(batches))

\* C19: each batch processed ended in exactly one way, success or failure; the
\* results are the records of the successful batches, each once, in order;
\* failed_batches lists the failed batches, each once with its number and keys,
\* and no successful one; and a run that completes has processed every batch
\* of the partition, whatever failed before.
C19_EveryBatchAccountedOnce ==
    (Partitioned \/ RunCompleted)
        => /\ \A j \in 1..Len(fa_batches) : fa_batches[j].outcome \in {"ok", "failed"}
           /\ fa.all_results = ConcatBatches(fa_batches)
           /\ fa.failed_batches = FailedOf(Closed)
           /\ \A f \in 1..Len(fa.failed_batches) :
                 /\ fa_batches[fa.failed_batches[f][1]].outcome = "failed"
                 /\ fa_batches[fa.failed_batches[f][1]].batch_ids = fa.failed_batches[f][2]
                 /\ \A g \in 1..Len(fa.failed_batches) :
                       fa.failed_batches[g][1] = fa.failed_batches[f][1] => g = f
           /\ RunCompleted
                 => {fa_batches[j].batch_num : j \in 1..Len(fa_batches)}
                      = 1..CeilDiv(Len(fa.report_ids), fa.batch_size)

\* A run of three batches has completed: the first failed, the second succeeded
\* with five records, the third failed; the results are those five records.
C19_Witness ==
    /\ RunCompleted
    /\ Len(fa_batches) = 3
    /\ fa_batches[1].outcome = "failed" /\ fa_batches[3].outcome = "failed"
    /\ fa_batches[2].outcome = "ok" /\ Len(fa_batches[2].records) = 5
    /\ Len(fa.all_results) = 5
    /\ Len(fa.failed_batches) = 2

Pace == [ev |-> "pace", ms |-> 500]

PacePositions(events) == {p \in 1..Len(events) : events[p].ev = "pace"}

\* C20: while a batch is being attempted no pacing sleep has been taken since
\* its first request, and before that request the last thing done was the
\* pacing sleep of the batch before; once its pass of the loop is over, a sleep of 0.5 s has
\* been taken, once and after all its requests and backoff sleeps, unless it is
\* the last batch of the partition, after which none is taken; this is so
\* whether the batch succeeded or failed, and a run of k >= 1 batches that
\* completes has slept after each of its first k - 1 batches and no other.
C20_PacingBetweenBatches ==
    LET k == CeilDiv(Len(fa.report_ids), fa.batch_size)
        m == Len(fa_batches)
    IN  /\ (Collecting /\ (fa.pc \in {"calling", "batch_end"}
                           \/ (fa.pc = "attempt" /\ fa.attempt > 0)))
           => PacePositions(fa_events) = {}
        /\ (Collecting /\ fa.pc = "attempt" /\ fa.attempt = 0 /\ m > 0)
           => PacePositions(fa_events) = {Len(fa_events)}
        /\ (Collecting /\ fa.pc = "batch_loop" /\ m > 0)
           => /\ PacePositions(fa_events) = (IF m < k THEN {Len(fa_events)} ELSE {})
              /\ \A p \in PacePositions(fa_events) : fa_events[p] = Pace
              /\ fa_batches[m].paced = (m < k)
        /\ (Partitioned \/ RunCompleted)
           => \A j \in 1..(m - 1) : fa_batches[j].paced
        /\ (RunCompleted /\ k >= 1)
           => /\ Cardinality({j \in 1..m : fa_batches[j].paced}) = k - 1
              /\ ~fa_batches[k].paced
              /\ PacePositions(fa_events) = {}

\* A run of three batches has completed after two pacing sleeps, one after its
\* failed first batch and one after its successful second batch.
C20_Witness ==
    /\ RunCompleted
    /\ Len(fa_batches) = 3
    /\ fa_batches[1].outcome = "failed" /\ fa_batches[1].paced
    /\ fa_batches[2].outcome = "ok" /\ fa_batches[2].paced
    /\ ~fa_batches[3].paced

(***************************************************************************)
(* Properties of get_federal_awards, stated for SpecAwards.                *)
(***************************************************************************)
Given(v) == v # PyNone

\* One of the filters is supplied; an award extension counts only with an
\* agency prefix.
FilterSupplied ==
    \/ Given(gfa.report_id)
    \/ Given(gfa.federal_agency_prefix)
    \/ Given(gfa.additional_award_identification)
    \/ Given(gfa.federal_program_name)
    \/ Given(gfa.cluster_name)

\* The one entry the claim expects: that of the last supplied filter.
LastFilterEntry ==
    IF Given(gfa.cluster_name)
    THEN "cluster_name" :> <<"i","l","i","k","e",".","*","S","N","A","P","*">>
    ELSE IF Given(gfa.federal_program_name)
    THEN "federal_program_name" :> <<"i","l","i","k","e",".","*","W","I","C","*">>
    ELSE IF Given(gfa.additional_award_identification)
    THEN "additional_award_identification" :> <<"e","q",".","*","A","7","*">>
    ELSE IF Given(gfa.federal_agency_prefix) /\ Given(gfa.federal_award_extension)
    THEN "federal_award_extension" :> <<"e","q",".","5","5","3">>
    ELSE IF Given(gfa.federal_agency_prefix)
    THEN "federal_agency_prefix" :> <<"e","q",".","1","0">>
    ELSE "report_id" :> <<"e","q",".","R","1">>

AwardsRequested == op = "get_federal_awards" /\ mr.pc # "idle"

InBatch == Collecting /\ fa.pc \in {"attempt", "calling", "batch_end"}

\* A batch has been started and not yet requested: the log is still that of
\* the batch before, if any.
BatchStarted ==
    /\ Collecting /\ fa.pc = "attempt"
    /\ fa_events = <<>> \/ fa_events[Len(fa_events)].ev # "backoff"

\* The backoff sleeps of the log, in order, in milliseconds.
RECURSIVE Backoffs(_)
Backoffs(events) ==
    IF events = <<>> THEN <<>>
    ELSE (IF Head(events).ev = "backoff" THEN <<Head(events).ms>> ELSE <<>>)
         \o Backoffs(Tail(events))

\* C22: every batch, whatever happened in the batches before it, starts with
\* attempt 0 and a delay of 5 s; within a batch the delay is 5, 10 or 20 s after
\* 0, 1 or 2 failed attempts, the sleeps taken so far are the first of 5 s and
\* 10 s, and the requests made are one more than the failed attempts.
C22_BackoffIsPerBatch ==
    /\ BatchStarted => (fa.attempt = 0 /\ fa.retry_delay = 5 /\ ~fa.batch_success)
    /\ InBatch
          => /\ fa.attempt \in 0..2
             /\ fa.retry_delay = (CASE fa.attempt = 0 -> 5
                                    [] fa.attempt = 1 -> 10
                                    [] fa.attempt = 2 -> 20)
    /\ (Collecting /\ fa.pc \in {"calling", "batch_end"})
          => /\ Backoffs(fa_events) = SubSeq(<<5000, 10000>>, 1, fa.attempt)
             /\ Requests(fa_events) = fa.attempt + 1

\* The second batch has been started with attempt 0 and a delay of 5 s, after a
\* first batch that was requested three times with sleeps of 5 s and 10 s.
C22_Witness ==
    /\ BatchStarted
    /\ fa.batch_num = 2 /\ fa.attempt = 0 /\ fa.retry_delay = 5
    /\ fa_events = <<Request, Backoff(5000), Request, Backoff(10000), Request, Pace>>

\* A step of get_all_federal_awards itself, not of a call it waits for.
CollectorStep == FA_BatchStart \/ FA_Attempt \/ FA_Receive \/ FA_BatchEnd \/ FA_Finish

\* The collector waits for a call of _make_request that has not ended.
AwaitingCall == Collecting /\ fa.pc = "calling" /\ mr.pc # "done"

AllBatchesProcessed ==
    /\ RunCompleted
    /\ Len(fa_batches) = CeilDiv(Len(fa.report_ids), fa.batch_size)

\* A bound on the steps the collector can still take: nine per batch not yet
\* begun, and within a batch two per attempt left and one for its end.
Rank(f) ==
    LET k == CeilDiv(Len(f.report_ids), f.batch_size)
    IN  CASE f.pc = "done" -> 0
          [] f.pc = "batch_loop" -> 9 * (k - (f.i \div f.batch_size)) + 1
          [] f.pc = "attempt" -> 9 * (k - f.batch_num) + 2 * (3 - f.attempt) + 2
          [] f.pc = "calling" -> 9 * (k - f.batch_num) + 2 * (3 - f.attempt) + 1
          [] f.pc = "batch_end" -> 9 * (k - f.batch_num) + 2

C23_Bounds ==
    /\ (Collecting /\ fa.pc \in {"calling", "batch_end"})
          => /\ Requests(fa_events) \in 1..3
             /\ Len(Backoffs(fa_events)) <= 2
             /\ Len(Backoffs(fa_events)) = Requests(fa_events) - 1
    /\ (Collecting /\ fa.pc = "batch_loop" /\ fa_batches # <<>>)
          => /\ Requests(fa_events) \in 1..3
             /\ Len(Backoffs(fa_events)) <= 2
    /\ (Collecting /\ fa.pc = "attempt" /\ fa.attempt > 0)
          => /\ Requests(fa_events) \in 1..2
             /\ Len(Backoffs(fa_events)) = Requests(fa_events)

\* C23: a batch causes at least one and at most three calls of _make_request
\* and at most two backoff sleeps; once the key list is partitioned the
\* collector always has a step to take unless it waits for a call that has not
\* ended, every step it takes lowers a bound that is never negative, so that
\* it ends if its calls do; and a run that completes has processed all its
\* batches.
C23_BoundedBatchPhase ==
    [][ /\ C23_Bounds'
        /\ (Partitioned /\ ~AwaitingCall) => ENABLED CollectorStep
        /\ (Partitioned' /\ ~AwaitingCall') => (ENABLED CollectorStep)'
        /\ (Partitioned \/ RunCompleted) => Rank(fa) >= 0
        /\ (Partitioned /\ fa' # fa) => (Rank(fa') >= 0 /\ Rank(fa') < Rank(fa))
        /\ RunCompleted' => AllBatchesProcessed' ]_vars

\* A run of three batches has completed; its last batch took three calls and two
\* backoff sleeps.
C23_Witness ==
    /\ AllBatchesProcessed
    /\ Len(fa_batches) = 3
    /\ Requests(fa_events) = 3
    /\ Len(Backoffs(fa_events)) = 2

====
